---- MODULE Spec2Model ----
(***************************************************************************)
(* A model of wangle's SSLContextManager (wangle/ssl/SSLContextManager.cpp):*)
(* the live SslContexts set (ctxs, defaultCtx, defaultCtxDomainName, dnMap), *)
(* the build of one context per SSLContextConfig, the insertion of its      *)
(* names into dnMap, the reload by build-then-swap, the ticket seed push    *)
(* and the SNI callback with its no-match hook.                             *)
(*                                                                         *)
(* Domain names are sequences of one-character strings, so that the code's  *)
(* character tests (dn[0] == '*', dn[1] == '.', strchr, find_first_of) are   *)
(* modelled as written.  A context is a fresh identifier; ctxObjs maps it to *)
(* the certificate its SSL_CTX currently holds and to its ticket manager.   *)
(***************************************************************************)
EXTENDS Integers, Sequences, FiniteSets, TLC

\* Bounds of the model.
MaxCtxId == 3
MaxCfgs == 2

\* nullptr of a shared_ptr<SSLContext>; context identifiers start at 1.
Null == 0

\* enum CertCrypto
SHA1_SIGNATURE == "SHA1_SIGNATURE"
BEST_AVAILABLE == "BEST_AVAILABLE"

\* A std::function that holds no target.
NoFn == "none"

\* const TLSTicketKeySeeds* == nullptr, and a context without ticket manager.
NullSeeds == <<>>
\* A default-constructed TLSTicketKeySeeds: three empty vectors.
EmptySeeds == << <<>>, <<>>, <<>> >>

Range(s) == {s[i] : i \in DOMAIN s}

-----------------------------------------------------------------------------
(* Inputs: certificate files, configuration entries, seeds, ClientHellos.   *)

\* The certificate files a configuration can name.  loadable: loadCertificate
\* succeeds; keyOk: loadPrivateKey succeeds; cn, hasSan/san: what
\* SSLUtil::getCommonName and getSubjectAltName return; sha1: the signature
\* nid is sha1WithRSAEncryption or ecdsa_with_SHA1.
Certs ==
  [cA   |-> [loadable |-> TRUE, keyOk |-> TRUE, cn |-> <<"a", ".", "c">>,
             hasSan |-> FALSE, san |-> <<>>, sha1 |-> FALSE],
   cB   |-> [loadable |-> TRUE, keyOk |-> TRUE, cn |-> <<"*", ".", "c">>,
             hasSan |-> FALSE, san |-> <<>>, sha1 |-> FALSE],
   cW   |-> [loadable |-> TRUE, keyOk |-> TRUE, cn |-> <<"a", ".", "c">>,
             hasSan |-> FALSE, san |-> <<>>, sha1 |-> TRUE],
   cV   |-> [loadable |-> TRUE, keyOk |-> TRUE, cn |-> <<"*", ".", "c">>,
             hasSan |-> FALSE, san |-> <<>>, sha1 |-> TRUE],
   cS   |-> [loadable |-> TRUE, keyOk |-> TRUE, cn |-> <<"*">>,
             hasSan |-> TRUE, san |-> << <<"b", ".", "c">> >>, sha1 |-> FALSE],
   cX   |-> [loadable |-> TRUE, keyOk |-> TRUE, cn |-> <<"b", ".", "c">>,
             hasSan |-> TRUE, san |-> << <<"a", "*", "c">>, <<"a", ".", "b", ".", "c">> >>,
             sha1 |-> FALSE],
   cK   |-> [loadable |-> TRUE, keyOk |-> FALSE, cn |-> <<"a", ".", "c">>,
             hasSan |-> FALSE, san |-> <<>>, sha1 |-> TRUE],
   cBad |-> [loadable |-> FALSE, keyOk |-> FALSE, cn |-> <<>>,
             hasSan |-> FALSE, san |-> <<>>, sha1 |-> FALSE]]

\* The no-match hooks a configuration entry can carry.
Hooks == {"hAdd", "hReset", "hFalse", "hAddFalse"}

Cfg(certs, isDefault, fn) ==
  [certificates |-> certs, isDefault |-> isDefault, sniNoMatchFn |-> fn]

\* The configuration entries (SSLContextConfig) reset and add are called with.
Configs ==
  { Cfg(<<"cA">>, TRUE, "hAdd"),
    Cfg(<<"cA">>, FALSE, "hFalse"),
    Cfg(<<"cB">>, FALSE, NoFn),
    Cfg(<<"cW">>, FALSE, "hReset"),
    Cfg(<<"cV">>, FALSE, NoFn),
    Cfg(<<"cS">>, TRUE, NoFn),
    Cfg(<<"cS">>, FALSE, NoFn),
    Cfg(<<"cX">>, TRUE, "hAddFalse"),
    Cfg(<<"cA", "cB">>, FALSE, NoFn),
    Cfg(<<"cA", "cK">>, FALSE, NoFn),
    Cfg(<<"cBad">>, FALSE, "hAdd") }

\* What the hooks do when invoked: hAdd adds HookAddCfg to the live set and
\* returns true, hReset resets to HookResetCfgs and returns true, hFalse
\* returns false, hAddFalse adds HookAddCfg and returns false.
HookAddCfg == Cfg(<<"cB">>, FALSE, NoFn)
HookResetCfgs == << Cfg(<<"cB">>, FALSE, NoFn) >>

CfgSeqs == UNION {[1..n -> Configs] : n \in 0..MaxCfgs}

\* Ticket seed triples (oldSeeds, currentSeeds, newSeeds).
Seeds1 == << <<"o1">>, <<"c1">>, <<"n1">> >>
Seeds2 == << <<"o2">>, <<"c2">>, <<"n2">> >>
ResetSeeds == {NullSeeds, Seeds1}
AddSeeds == {NullSeeds, Seeds2}
ReloadSeeds == {Seeds1, Seeds2}

\* The names a ClientHello can carry.
SNIs ==
  { <<"a", ".", "c">>, <<"b", ".", "c">>, <<"a", ".", "b", ".", "c">>,
    <<"*", ".", "c">>, <<".", "c">>, <<"*">>, <<"a", "*", "c">>, <<>> }

\* hasSn: SSL_get_servername returns a name; hasInfo: getClientHelloInfo is
\* non-null; sha256: clientHelloSigAlgs_ has a SHA256 entry; sniExt:
\* clientHelloExtensions_ has SERVER_NAME.
Hellos ==
  { [hasSn |-> TRUE, sn |-> n, hasInfo |-> i[1], sha256 |-> i[2], sniExt |-> i[3]] :
      n \in SNIs,
      i \in { <<FALSE, FALSE, FALSE>>, <<TRUE, FALSE, FALSE>>, <<TRUE, TRUE, FALSE>>,
              <<TRUE, FALSE, TRUE>>, <<TRUE, TRUE, TRUE>> } }
  \cup
  { [hasSn |-> FALSE, sn |-> <<>>, hasInfo |-> i[1], sha256 |-> i[2], sniExt |-> i[3]] :
      i \in { <<FALSE, FALSE, FALSE>>, <<TRUE, FALSE, FALSE>>, <<TRUE, TRUE, FALSE>> } }

-----------------------------------------------------------------------------
VARIABLES
  strict_,      \* constructor argument strict
  noMatchFn_,   \* the manager-wide no-match hook
  contexts_,    \* the live SslContexts
  ctxObjs,      \* the ServerSSLContext objects the live set references
  nextId,       \* identifier of the next context object
  last          \* the call that has just run, its arguments and its outcome

vars == <<strict_, noMatchFn_, contexts_, ctxObjs, nextId, last>>

\* A default-constructed SslContexts.
EmptyContexts ==
  [ctxs |-> <<>>, defaultCtx |-> Null, defaultCtxDomainName |-> <<>>, dnMap |-> <<>>]

NoHello == [hasSn |-> FALSE, sn |-> <<>>, hasInfo |-> FALSE, sha256 |-> FALSE, sniExt |-> FALSE]

NoOp ==
  [op |-> "idle", ok |-> TRUE, cfgs |-> <<>>, seeds |-> NullSeeds, base |-> 0,
   hello |-> NoHello, sn |-> <<>>, certCryptoReq |-> BEST_AVAILABLE,
   passes |-> 0, hook |-> NoFn, result |-> "NONE", ctx |-> Null]

-----------------------------------------------------------------------------
(* Insertion of a context into an SslContexts.                              *)

insertIntoDnMap(contexts, key, sslCtx, overwrite) ==
  IF key \notin DOMAIN contexts.dnMap
    THEN [contexts EXCEPT !.dnMap = (key :> sslCtx) @@ contexts.dnMap]
    ELSE IF contexts.dnMap[key] = sslCtx
      THEN contexts
      ELSE IF overwrite
        THEN [contexts EXCEPT !.dnMap[key] = sslCtx]
        ELSE contexts

\* Mutant: a weak certificate is inserted at its own tier only.
insertSSLCtxByDomainNameImpl_ownTierOnly(contexts, dn, sslCtx, certCrypto) ==
  LET wild == Len(dn) > 2 /\ dn[1] = "*"
      d == IF wild THEN Tail(dn) ELSE dn
  IN IF (wild /\ dn[2] # ".") \/ (Len(d) = 1 /\ d[1] = ".") \/ (\E i \in 1..Len(d) : d[i] = "*")
       THEN [ok |-> FALSE, c |-> contexts]
       ELSE [ok |-> TRUE, c |-> insertIntoDnMap(contexts, <<d, certCrypto>>, sslCtx, TRUE)]

\* Mutant: the fallback insertion of a weak certificate overwrites.
insertSSLCtxByDomainNameImpl_overwritingFallback(contexts, dn, sslCtx, certCrypto) ==
  LET wild == Len(dn) > 2 /\ dn[1] = "*"
      d == IF wild THEN Tail(dn) ELSE dn
  IN IF (wild /\ dn[2] # ".") \/ (Len(d) = 1 /\ d[1] = ".") \/ (\E i \in 1..Len(d) : d[i] = "*")
       THEN [ok |-> FALSE, c |-> contexts]
       ELSE
         LET c1 == insertIntoDnMap(contexts, <<d, certCrypto>>, sslCtx, TRUE)
         IN [ok |-> TRUE,
             c |-> IF certCrypto # BEST_AVAILABLE
                     THEN insertIntoDnMap(c1, <<d, BEST_AVAILABLE>>, sslCtx, TRUE)
                     ELSE c1]

\* ok = FALSE stands for the std::runtime_error the function throws.
insertSSLCtxByDomainNameImpl(contexts, dn, sslCtx, certCrypto) ==
  LET wild == Len(dn) > 2 /\ dn[1] = "*"
  IN IF wild /\ dn[2] # "."
       THEN [ok |-> FALSE, c |-> contexts]
       ELSE
         LET d == IF wild THEN Tail(dn) ELSE dn
         IN IF Len(d) = 1 /\ d[1] = "."
              THEN [ok |-> FALSE, c |-> contexts]
              ELSE IF \E i \in 1..Len(d) : d[i] = "*"
                THEN [ok |-> FALSE, c |-> contexts]
                ELSE
                  LET c1 == insertIntoDnMap(contexts, <<d, certCrypto>>, sslCtx, TRUE)
                  IN [ok |-> TRUE,
                      c |-> IF certCrypto # BEST_AVAILABLE
                              THEN insertIntoDnMap(c1, <<d, BEST_AVAILABLE>>, sslCtx, FALSE)
                              ELSE c1]

\* In strict mode the error is rethrown, otherwise it is logged and the name
\* is skipped.
insertSSLCtxByDomainName(strict, contexts, dn, sslCtx, certCrypto) ==
  LET catch(r) == IF r.ok THEN r
                  ELSE IF strict THEN r ELSE [ok |-> TRUE, c |-> contexts]
  IN catch(insertSSLCtxByDomainNameImpl(contexts, dn, sslCtx, certCrypto))

\* Mutant: the subject alternative names are not inserted.
insertAltNames_skipped(strict, r, names, sslCtx, certCrypto) ==
  r

\* The loop over the subject alternative names, entered with the outcome r of
\* the insertion of the common name; a throw ends the function.
RECURSIVE insertAltNames(_, _, _, _, _)
insertAltNames(strict, r, names, sslCtx, certCrypto) ==
  IF names = <<>> \/ ~r.ok THEN r
  ELSE insertAltNames(strict,
                      insertSSLCtxByDomainName(strict, r.c, Head(names), sslCtx, certCrypto),
                      Tail(names), sslCtx, certCrypto)

\* Mutant: a certificate whose CN is the star is inserted like any other, by
\* its CN and its SANs.
insert_noStarCase(strict, contexts, sslCtx, x509, defaultFallback) ==
  LET cn == x509.cn
      certCrypto == IF x509.sha1 THEN SHA1_SIGNATURE ELSE BEST_AVAILABLE
      altNames == IF x509.hasSan THEN x509.san ELSE <<>>
      finish(r) ==
        IF ~r.ok THEN r
        ELSE [ok |-> TRUE,
              c |-> [r.c EXCEPT
                       !.defaultCtxDomainName = IF defaultFallback THEN cn ELSE @,
                       !.ctxs = Append(@, sslCtx)]]
  IN finish(insertAltNames(
              strict,
              insertSSLCtxByDomainName(strict, contexts, cn, sslCtx, certCrypto),
              altNames, sslCtx, certCrypto))

\* c is the SslContexts as the call leaves it, also when it throws.
insert(strict, contexts, sslCtx, x509, defaultFallback) ==
  LET cn == x509.cn
  IN IF Len(cn) = 1 /\ cn[1] = "*"
       THEN IF ~defaultFallback
              THEN [ok |-> FALSE, c |-> contexts]
              ELSE [ok |-> TRUE, c |-> [contexts EXCEPT !.ctxs = Append(@, sslCtx)]]
       ELSE
         LET certCrypto == IF x509.sha1 THEN SHA1_SIGNATURE ELSE BEST_AVAILABLE
             altNames == IF x509.hasSan THEN x509.san ELSE <<>>
             \* r: the outcome of the insertions of the names.
             finish(r) ==
               IF ~r.ok THEN r
               ELSE [ok |-> TRUE,
                     c |-> [r.c EXCEPT
                              !.defaultCtxDomainName = IF defaultFallback THEN cn ELSE @,
                              !.ctxs = Append(@, sslCtx)]]
         IN finish(insertAltNames(
                     strict,
                     insertSSLCtxByDomainName(strict, contexts, cn, sslCtx, certCrypto),
                     altNames, sslCtx, certCrypto))

\* Mutant: a second default entry replaces the default context.
ctxSetupByOpensslFeature_overwritesDefault(contexts, sslCtx, ctxConfig) ==
  IF ctxConfig.isDefault
    THEN [ok |-> TRUE, c |-> [contexts EXCEPT !.defaultCtx = sslCtx]]
    ELSE [ok |-> TRUE, c |-> contexts]

\* The SNI part of ctxSetupByOpensslFeature; noMatchFn_ is assigned by the
\* caller below, before this check.
ctxSetupByOpensslFeature(contexts, sslCtx, ctxConfig) ==
  IF ctxConfig.isDefault
    THEN IF contexts.defaultCtx # Null
           THEN [ok |-> FALSE, c |-> contexts]
           ELSE [ok |-> TRUE, c |-> [contexts EXCEPT !.defaultCtx = sslCtx]]
    ELSE [ok |-> TRUE, c |-> contexts]

\* Sorted lists are equal exactly when they hold the same names the same
\* number of times.
SameSortedList(s, t) ==
  \A x \in Range(s) \cup Range(t) :
    Cardinality({i \in DOMAIN s : s[i] = x}) = Cardinality({i \in DOMAIN t : t[i] = x})

\* The loop over ctxConfig.certificates: every certificate loads, agrees with
\* the first one on CN and SAN, and its private key loads.
certificatesLoad(certs) ==
  \A i \in 1..Len(certs) :
    LET x == Certs[certs[i]]
        first == Certs[certs[1]]
    IN /\ x.loadable
       /\ i > 1 => /\ x.cn = first.cn
                   /\ x.hasSan = first.hasSan
                   /\ x.hasSan => SameSortedList(x.san, first.san)
       /\ x.keyOk

\* TLSTicketKeyManager::setTLSTicketKeySeeds: the ticket manager holds the
\* three seed lists it is given.
setTLSTicketKeySeeds(oldSeeds, currentSeeds, newSeeds) ==
  <<oldSeeds, currentSeeds, newSeeds>>

\* ServerSSLContext::setupTicketManager: a ticket manager that is handed the
\* seeds; without seeds there is no ticket manager.
setupTicketManager(ticketSeeds) ==
  IF ticketSeeds = NullSeeds
    THEN NullSeeds
    ELSE setTLSTicketKeySeeds(ticketSeeds[1], ticketSeeds[2], ticketSeeds[3])

\* TLSTicketKeyManager::getTLSTicketKeySeeds.
getTLSTicketKeySeeds(tm) == tm

\* Mutant: noMatchFn_ is assigned once the entry has been inserted.
addSSLContextConfig_hookOnSuccess(strict, b, ctxConfig, ticketSeeds) ==
  IF ~certificatesLoad(ctxConfig.certificates)
    THEN [b EXCEPT !.ok = FALSE]
    ELSE
      LET sslCtx == b.next
          certs == ctxConfig.certificates
          obj == [x509 |-> certs[Len(certs)], tm |-> setupTicketManager(ticketSeeds)]
          b1 == [b EXCEPT !.objs = (sslCtx :> obj) @@ b.objs,
                          !.next = b.next + 1]
          s == ctxSetupByOpensslFeature(b.c, sslCtx, ctxConfig)
      IN IF ~s.ok
           THEN [b1 EXCEPT !.ok = FALSE]
           ELSE
             LET r == insert(strict, s.c, sslCtx, Certs[obj.x509], ctxConfig.isDefault)
             IN [b1 EXCEPT !.c = r.c, !.ok = r.ok,
                           !.fn = IF r.ok THEN ctxConfig.sniNoMatchFn ELSE @]

\* b = [c, objs, fn, next, ok]: the SslContexts built into, the context
\* objects, noMatchFn_, the next identifier, and whether no call has thrown.
addSSLContextConfig(strict, b, ctxConfig, ticketSeeds) ==
  IF ~certificatesLoad(ctxConfig.certificates)
    THEN [b EXCEPT !.ok = FALSE]
    ELSE
      LET sslCtx == b.next
          certs == ctxConfig.certificates
          obj == [x509 |-> certs[Len(certs)], tm |-> setupTicketManager(ticketSeeds)]
          b1 == [b EXCEPT !.fn = ctxConfig.sniNoMatchFn,
                          !.objs = (sslCtx :> obj) @@ b.objs,
                          !.next = b.next + 1]
          s == ctxSetupByOpensslFeature(b.c, sslCtx, ctxConfig)
      IN IF ~s.ok
           THEN [b1 EXCEPT !.ok = FALSE]
           ELSE
             LET r == insert(strict, s.c, sslCtx, Certs[obj.x509], ctxConfig.isDefault)
             IN [b1 EXCEPT !.c = r.c, !.ok = r.ok]

RECURSIVE addAll(_, _, _, _)
addAll(strict, b, ctxConfigs, ticketSeeds) ==
  IF ctxConfigs = <<>> \/ ~b.ok THEN b
  ELSE addAll(strict, addSSLContextConfig(strict, b, Head(ctxConfigs), ticketSeeds),
              Tail(ctxConfigs), ticketSeeds)

\* The seeds of the first context of the live set that has a ticket manager.
RECURSIVE firstTicketSeeds(_, _)
firstTicketSeeds(ctxs, objs) ==
  IF ctxs = <<>> THEN EmptySeeds
  ELSE IF objs[Head(ctxs)].tm # NullSeeds
    THEN getTLSTicketKeySeeds(objs[Head(ctxs)].tm)
    ELSE firstTicketSeeds(Tail(ctxs), objs)

\* Mutant: the index is left out of the swap.
swap_withoutIndex(live, other) ==
  [ctxs |-> other.ctxs,
   defaultCtx |-> other.defaultCtx,
   defaultCtxDomainName |-> other.defaultCtxDomainName,
   dnMap |-> live.dnMap]

\* SslContexts::swap: the live set takes the four fields of the built one.
swap(live, other) ==
  [ctxs |-> other.ctxs,
   defaultCtx |-> other.defaultCtx,
   defaultCtxDomainName |-> other.defaultCtxDomainName,
   dnMap |-> other.dnMap]

\* Mutant: the new contexts are built on top of a copy of the live set.
resetSSLContextConfigs_ontoLive(strict, m, ctxConfigs, ticketSeeds) ==
  LET oldTicketSeeds == IF ticketSeeds = NullSeeds
                          THEN firstTicketSeeds(m.c.ctxs, m.objs)
                          ELSE EmptySeeds
      publish(b) ==
        IF b.ok
          THEN [c |-> swap(m.c, b.c), objs |-> b.objs, fn |-> b.fn, next |-> b.next, ok |-> TRUE]
          ELSE [c |-> m.c, objs |-> m.objs, fn |-> b.fn, next |-> m.next, ok |-> FALSE]
  IN publish(addAll(strict,
                    [c |-> m.c, objs |-> m.objs, fn |-> m.fn, next |-> m.next, ok |-> TRUE],
                    ctxConfigs,
                    IF ticketSeeds # NullSeeds THEN ticketSeeds ELSE oldTicketSeeds))

\* Mutant: the built set is swapped in even when an entry has thrown.
resetSSLContextConfigs_swapOnThrow(strict, m, ctxConfigs, ticketSeeds) ==
  LET oldTicketSeeds == IF ticketSeeds = NullSeeds
                          THEN firstTicketSeeds(m.c.ctxs, m.objs)
                          ELSE EmptySeeds
      publish(b) ==
        [c |-> swap(m.c, b.c), objs |-> b.objs, fn |-> b.fn, next |-> b.next, ok |-> b.ok]
  IN publish(addAll(strict,
                    [c |-> EmptyContexts, objs |-> m.objs, fn |-> m.fn,
                     next |-> m.next, ok |-> TRUE],
                    ctxConfigs,
                    IF ticketSeeds # NullSeeds THEN ticketSeeds ELSE oldTicketSeeds))

\* Mutant: the seeds of the live set are not carried over.
resetSSLContextConfigs_noCarryOver(strict, m, ctxConfigs, ticketSeeds) ==
  LET publish(b) ==
        IF b.ok
          THEN [c |-> swap(m.c, b.c), objs |-> b.objs, fn |-> b.fn, next |-> b.next, ok |-> TRUE]
          ELSE [c |-> m.c, objs |-> m.objs, fn |-> b.fn, next |-> m.next, ok |-> FALSE]
  IN publish(addAll(strict,
                    [c |-> EmptyContexts, objs |-> m.objs, fn |-> m.fn,
                     next |-> m.next, ok |-> TRUE],
                    ctxConfigs,
                    IF ticketSeeds # NullSeeds THEN ticketSeeds ELSE EmptySeeds))

\* m = [c, objs, fn, next]: the manager's live set, context objects, hook and
\* next identifier.  The result carries ok = FALSE when the call throws.
resetSSLContextConfigs(strict, m, ctxConfigs, ticketSeeds) ==
  LET oldTicketSeeds == IF ticketSeeds = NullSeeds
                          THEN firstTicketSeeds(m.c.ctxs, m.objs)
                          ELSE EmptySeeds
      \* b: the set built aside; it is swapped in only when no entry threw.
      publish(b) ==
        IF b.ok
          THEN [c |-> swap(m.c, b.c), objs |-> b.objs, fn |-> b.fn, next |-> b.next, ok |-> TRUE]
          ELSE [c |-> m.c, objs |-> m.objs, fn |-> b.fn, next |-> m.next, ok |-> FALSE]
  IN publish(addAll(strict,
                    [c |-> EmptyContexts, objs |-> m.objs, fn |-> m.fn,
                     next |-> m.next, ok |-> TRUE],
                    ctxConfigs,
                    IF ticketSeeds # NullSeeds THEN ticketSeeds ELSE oldTicketSeeds))

\* addSSLContextConfig with contexts == nullptr: the live set is built into.
addToLive(strict, m, ctxConfig, ticketSeeds) ==
  addSSLContextConfig(strict,
                      [c |-> m.c, objs |-> m.objs, fn |-> m.fn, next |-> m.next, ok |-> TRUE],
                      ctxConfig, ticketSeeds)

\* Mutant: the loop stops after the first context.
reloadTLSTicketKeys_firstOnly(ctxs, objs, seeds) ==
  [id \in DOMAIN objs |->
     IF ctxs # <<>> /\ id = ctxs[1] /\ objs[id].tm # NullSeeds
       THEN [objs[id] EXCEPT !.tm = seeds]
       ELSE objs[id]]

\* TLSTicketKeyManager::setTLSTicketKeySeeds on every context of ctxs that has
\* a ticket manager.
reloadTLSTicketKeys(ctxs, objs, seeds) ==
  [id \in DOMAIN objs |->
     IF id \in Range(ctxs) /\ objs[id].tm # NullSeeds
       THEN [objs[id] EXCEPT !.tm = setTLSTicketKeySeeds(seeds[1], seeds[2], seeds[3])]
       ELSE objs[id]]

\* The context objects some shared_ptr of the set still points to.
Referenced(contexts) ==
  (Range(contexts.ctxs) \cup Range(contexts.dnMap) \cup {contexts.defaultCtx}) \ {Null}

Release(contexts, objs) ==
  [id \in Referenced(contexts) |-> objs[id]]

Max(S, d) == IF S = {} THEN d ELSE CHOOSE x \in S : \A y \in S : y <= x

getDefaultSSLCtx(contexts) == contexts.defaultCtx

-----------------------------------------------------------------------------
(* SNI selection.                                                           *)

\* Mutant: the exact lookup reads the BestAvailable entry of the name.
getSSLCtxByExactDomain_bestOnly(contexts, key) ==
  IF <<key[1], BEST_AVAILABLE>> \in DOMAIN contexts.dnMap
    THEN contexts.dnMap[<<key[1], BEST_AVAILABLE>>]
    ELSE Null

getSSLCtxByExactDomain(contexts, key) ==
  IF key \in DOMAIN contexts.dnMap THEN contexts.dnMap[key] ELSE Null

\* Mutant: the suffix starts at the last dot of the name.
getSSLCtxBySuffix_lastDot(contexts, key) ==
  LET dn == key[1]
      dots == {i \in 1..Len(dn) : dn[i] = "."}
  IN IF dots # {}
       THEN LET dot == CHOOSE i \in dots : \A j \in dots : j <= i
                suffixKey == <<SubSeq(dn, dot, Len(dn)), key[2]>>
            IN IF suffixKey \in DOMAIN contexts.dnMap
                 THEN contexts.dnMap[suffixKey]
                 ELSE Null
       ELSE Null

getSSLCtxBySuffix(contexts, key) ==
  LET dn == key[1]
      dots == {i \in 1..Len(dn) : dn[i] = "."}
  IN IF dots # {}
       THEN LET dot == CHOOSE i \in dots : \A j \in dots : i <= j
                suffixKey == <<SubSeq(dn, dot, Len(dn)), key[2]>>
            IN IF suffixKey \in DOMAIN contexts.dnMap
                 THEN contexts.dnMap[suffixKey]
                 ELSE Null
       ELSE Null

\* Mutant: the wildcard entry is tried before the exact one.
getSSLCtx_suffixFirst(contexts, key) ==
  LET ctx == getSSLCtxBySuffix(contexts, key)
  IN IF ctx # Null THEN ctx ELSE getSSLCtxByExactDomain(contexts, key)

getSSLCtx(contexts, key) ==
  LET ctx == getSSLCtxByExactDomain(contexts, key)
  IN IF ctx # Null THEN ctx ELSE getSSLCtxBySuffix(contexts, key)

\* Mutant: the pass consults BestAvailable before the requested tier.
lookupPass_bestFirst(contexts, dnstr, certCryptoReq) ==
  LET ctx == getSSLCtx(contexts, <<dnstr, BEST_AVAILABLE>>)
  IN IF ctx # Null THEN ctx
     ELSE IF certCryptoReq # BEST_AVAILABLE
       THEN getSSLCtx(contexts, <<dnstr, certCryptoReq>>)
       ELSE Null

\* One pass of the do-while body: the requested tier, then the upgrade.
lookupPass(contexts, dnstr, certCryptoReq) ==
  LET ctx == getSSLCtx(contexts, <<dnstr, certCryptoReq>>)
  IN IF ctx # Null THEN ctx
     ELSE IF certCryptoReq # BEST_AVAILABLE
       THEN getSSLCtx(contexts, <<dnstr, BEST_AVAILABLE>>)
       ELSE Null

\* Mutant: the SNI extension does not force BestAvailable.
inferCertCrypto_ignoresSniExt(hello) ==
  IF ~hello.hasInfo THEN BEST_AVAILABLE
  ELSE IF hello.sha256 THEN BEST_AVAILABLE
  ELSE SHA1_SIGNATURE

\* The tier the callback infers from the ClientHello.
inferCertCrypto(hello) ==
  IF ~hello.hasInfo THEN BEST_AVAILABLE
  ELSE IF hello.sniExt THEN BEST_AVAILABLE
  ELSE IF hello.sha256 THEN BEST_AVAILABLE
  ELSE SHA1_SIGNATURE

\* Mutant: the hook runs twice.
hookCall_twice(strict, m, fn) ==
  IF fn = "hAdd"
    THEN [m |-> addToLive(strict, addToLive(strict, m, HookAddCfg, NullSeeds),
                          HookAddCfg, NullSeeds),
          ret |-> TRUE]
    ELSE IF fn = "hReset"
      THEN [m |-> resetSSLContextConfigs(
                    strict, resetSSLContextConfigs(strict, m, HookResetCfgs, NullSeeds),
                    HookResetCfgs, NullSeeds),
            ret |-> TRUE]
      ELSE IF fn = "hAddFalse"
        THEN [m |-> addToLive(strict, addToLive(strict, m, HookAddCfg, NullSeeds),
                              HookAddCfg, NullSeeds),
              ret |-> FALSE]
        ELSE [m |-> [m EXCEPT !.ok = TRUE], ret |-> FALSE]

\* What the hook fn does to the manager, and what it returns.
hookCall(strict, m, fn) ==
  IF fn = "hAdd"
    THEN [m |-> addToLive(strict, m, HookAddCfg, NullSeeds), ret |-> TRUE]
    ELSE IF fn = "hReset"
      THEN [m |-> resetSSLContextConfigs(strict, m, HookResetCfgs, NullSeeds), ret |-> TRUE]
      ELSE IF fn = "hAddFalse"
        THEN [m |-> addToLive(strict, m, HookAddCfg, NullSeeds), ret |-> FALSE]
        ELSE [m |-> [m EXCEPT !.ok = TRUE], ret |-> FALSE]

\* Mutant: the callback returns after the hook without a second pass.
serverNameCallback_noRetry(strict, m, hello) ==
  LET sn == IF ~hello.hasSn THEN m.c.defaultCtxDomainName ELSE hello.sn
      certCryptoReq == inferCertCrypto(hello)
      ctx1 == lookupPass(m.c, sn, certCryptoReq)
      out(mm, passes, hook, ctx) ==
        [m |-> mm, sn |-> sn, certCryptoReq |-> certCryptoReq, passes |-> passes,
         hook |-> hook, ctx |-> ctx,
         result |-> IF ctx # Null THEN "FOUND" ELSE "NOT_FOUND"]
  IN IF ctx1 # Null THEN out(m, 1, NoFn, ctx1)
     ELSE IF m.fn = NoFn THEN out(m, 1, NoFn, Null)
     ELSE out(hookCall(strict, m, m.fn).m, 1, m.fn, Null)

\* Mutant: the second pass reads the set the first pass read.
serverNameCallback_retryOldSet(strict, m, hello) ==
  LET sn == IF ~hello.hasSn THEN m.c.defaultCtxDomainName ELSE hello.sn
      certCryptoReq == inferCertCrypto(hello)
      ctx1 == lookupPass(m.c, sn, certCryptoReq)
      out(mm, passes, hook, ctx) ==
        [m |-> mm, sn |-> sn, certCryptoReq |-> certCryptoReq, passes |-> passes,
         hook |-> hook, ctx |-> ctx,
         result |-> IF ctx # Null THEN "FOUND" ELSE "NOT_FOUND"]
  IN IF ctx1 # Null THEN out(m, 1, NoFn, ctx1)
     ELSE IF m.fn = NoFn THEN out(m, 1, NoFn, Null)
     ELSE
       LET retry(h) ==
             IF h.ret
               THEN out(h.m, 2, m.fn, lookupPass(m.c, sn, certCryptoReq))
               ELSE out(h.m, 1, m.fn, Null)
       IN retry(hookCall(strict, m, m.fn))

\* The callback: the manager as it leaves it, and the outcome.
serverNameCallback(strict, m, hello) ==
  LET sn == IF ~hello.hasSn THEN m.c.defaultCtxDomainName ELSE hello.sn
      certCryptoReq == inferCertCrypto(hello)
      ctx1 == lookupPass(m.c, sn, certCryptoReq)
      out(mm, passes, hook, ctx) ==
        [m |-> mm, sn |-> sn, certCryptoReq |-> certCryptoReq, passes |-> passes,
         hook |-> hook, ctx |-> ctx,
         result |-> IF ctx # Null THEN "FOUND" ELSE "NOT_FOUND"]
  IN IF ctx1 # Null THEN out(m, 1, NoFn, ctx1)
     ELSE IF m.fn = NoFn THEN out(m, 1, NoFn, Null)
     ELSE
       \* h: the manager as the hook left it, and what the hook returned.
       LET retry(h) ==
             IF h.ret
               THEN out(h.m, 2, m.fn, lookupPass(h.m.c, sn, certCryptoReq))
               ELSE out(h.m, 1, m.fn, Null)
       IN retry(hookCall(strict, m, m.fn))

-----------------------------------------------------------------------------
(* The state machine.                                                       *)

Mgr == [c |-> contexts_, objs |-> ctxObjs, fn |-> noMatchFn_, next |-> nextId, ok |-> TRUE]

\* The manager takes the state m; objects nothing points to are released.
Become(m) ==
  /\ contexts_' = m.c
  /\ ctxObjs' = Release(m.c, m.objs)
  /\ noMatchFn_' = m.fn
  /\ nextId' = Max(Referenced(m.c), nextId - 1) + 1

Init ==
  /\ strict_ \in BOOLEAN
  /\ noMatchFn_ = NoFn
  /\ contexts_ = EmptyContexts
  /\ ctxObjs = <<>>
  /\ nextId = 1
  /\ last = NoOp

Reset ==
  \E ctxConfigs \in CfgSeqs, ticketSeeds \in ResetSeeds :
    /\ last = NoOp
    /\ nextId + Len(ctxConfigs) - 1 <= MaxCtxId
    /\ LET m == resetSSLContextConfigs(strict_, Mgr, ctxConfigs, ticketSeeds)
       IN /\ Become(m)
          /\ last' = [NoOp EXCEPT !.op = "reset", !.ok = m.ok,
                                  !.cfgs = ctxConfigs, !.seeds = ticketSeeds,
                                  !.base = nextId]
    /\ UNCHANGED strict_

Add ==
  \E ctxConfig \in Configs, ticketSeeds \in AddSeeds :
    /\ last = NoOp
    /\ nextId <= MaxCtxId
    /\ LET m == addToLive(strict_, Mgr, ctxConfig, ticketSeeds)
       IN /\ Become(m)
          /\ last' = [NoOp EXCEPT !.op = "add", !.ok = m.ok,
                                  !.cfgs = <<ctxConfig>>, !.seeds = ticketSeeds,
                                  !.base = nextId]
    /\ UNCHANGED strict_

Clear ==
  /\ last = NoOp
  /\ Become([Mgr EXCEPT !.c = EmptyContexts])
  /\ last' = [NoOp EXCEPT !.op = "clear"]
  /\ UNCHANGED strict_

ReloadTLSTicketKeys ==
  \E seeds \in ReloadSeeds :
    /\ last = NoOp
    /\ ctxObjs' = reloadTLSTicketKeys(contexts_.ctxs, ctxObjs, seeds)
    /\ last' = [NoOp EXCEPT !.op = "reloadTLSTicketKeys", !.seeds = seeds]
    /\ UNCHANGED <<strict_, noMatchFn_, contexts_, nextId>>

Select ==
  \E hello \in Hellos :
    /\ last = NoOp
    /\ nextId <= MaxCtxId
    /\ LET answer(r) ==
             /\ Become(r.m)
             /\ last' = [NoOp EXCEPT !.op = "select", !.ok = r.m.ok, !.hello = hello,
                                     !.sn = r.sn, !.certCryptoReq = r.certCryptoReq,
                                     !.passes = r.passes, !.hook = r.hook,
                                     !.result = r.result, !.ctx = r.ctx]
       IN answer(serverNameCallback(strict_, Mgr, hello))
    /\ UNCHANGED strict_

GetDefaultSSLCtx ==
  /\ last = NoOp
  /\ last' = [NoOp EXCEPT !.op = "getDefaultSSLCtx", !.ctx = getDefaultSSLCtx(contexts_)]
  /\ UNCHANGED <<strict_, noMatchFn_, contexts_, ctxObjs, nextId>>

\* The call returns to its caller.  last describes the one call that has just
\* run; no operation reads it, so the manager states reached are the same as
\* when calls follow each other directly.
Return ==
  /\ last # NoOp
  /\ last' = NoOp
  /\ UNCHANGED <<strict_, noMatchFn_, contexts_, ctxObjs, nextId>>

Next ==
  Reset \/ Add \/ Clear \/ ReloadTLSTicketKeys \/ Select \/ GetDefaultSSLCtx \/ Return

Spec == Init /\ [][Next]_vars

-----------------------------------------------------------------------------
(* Vocabulary of the properties below.  These definitions restate what the  *)
(* properties speak about; they use none of the operators above.            *)

IsStar(n) == n = <<"*">>
IsWildcard(n) == Len(n) > 2 /\ n[1] = "*" /\ n[2] = "."
\* The stored form of an identity: a leading "*." loses its star.
Normalized(n) == IF IsWildcard(n) THEN Tail(n) ELSE n
\* An identity the index accepts: no star left after normalization and not
\* the bare ".".
Accepted(n) == Normalized(n) # <<".">> /\ \A i \in 1..Len(Normalized(n)) : Normalized(n)[i] # "*"

\* CN and SANs of a certificate.
Identities(x509) == {x509.cn} \cup (IF x509.hasSan THEN Range(x509.san) ELSE {})
TierOf(x509) == IF x509.sha1 THEN SHA1_SIGNATURE ELSE BEST_AVAILABLE
\* The tiers a certificate is inserted at: its own, and BestAvailable as the
\* fallback of a weak one; none when its CN is the star.
InsertedTiers(x509) ==
  IF IsStar(x509.cn) THEN {} ELSE {TierOf(x509), BEST_AVAILABLE}

X509Of(id) == Certs[ctxObjs[id].x509]
\* The certificate has n among its identities, compared in stored form.
HasIdentity(x509, n) == \E w \in Identities(x509) : Normalized(w) = Normalized(n)

LiveCtxs == Range(contexts_.ctxs)
IndexKeys == DOMAIN contexts_.dnMap
IndexNames == {k[1] : k \in IndexKeys}
\* Every shared_ptr of the live set points into its contexts sequence.
NoOrphans == \A id \in Referenced(contexts_) : id \in LiveCtxs

\* The hook of the select that has just run changed the live set and refused
\* the retry: no lookup pass has read the live set as it is now.
HookLeftSetUnread == last.op = "select" /\ last.passes = 1 /\ last.hook = "hAddFalse"

\* select has just answered a ClientHello with SNI n at requested tier t.  The
\* live set is then the one its answering pass read: select changes it only
\* through the hook, before the retry.
Selected(n, t) ==
  /\ last.op = "select" /\ last.hello.hasSn /\ last.hello.sn = n /\ last.certCryptoReq = t
  /\ ~HookLeftSetUnread

\* The live set holds exactly one context for each of the two certificates.
HoldsExactly(p, q) ==
  /\ Len(contexts_.ctxs) = 2
  /\ {ctxObjs[id].x509 : id \in LiveCtxs} = {p, q}
  /\ NoOrphans
CtxOfCert(p) == CHOOSE id \in LiveCtxs : ctxObjs[id].x509 = p

-----------------------------------------------------------------------------
\* C1 (as stated): for every name n that is CN or SAN of a certificate whose
\* context was inserted and every tier t it was inserted at, select with
\* SNI n and tier t returns FOUND with a context whose certificate has n.
C1_AsStated ==
  \A id \in LiveCtxs : \A n \in Identities(X509Of(id)) : \A t \in InsertedTiers(X509Of(id)) :
    Selected(n, t) => /\ last.result = "FOUND"
                      /\ HasIdentity(X509Of(last.ctx), n)

\* C1 (amended): the same for every such name n that the index accepts (no
\* star other than a leading "*.", not the bare "."); a rejected name is
\* skipped when the manager is not strict and select does not find it.
C1_IndexedNamesAreFound ==
  \A id \in LiveCtxs : \A n \in Identities(X509Of(id)) : \A t \in InsertedTiers(X509Of(id)) :
    (Accepted(n) /\ Selected(n, t)) => /\ last.result = "FOUND"
                                       /\ HasIdentity(X509Of(last.ctx), n)

\* A weak request for the wildcard name of a best-available certificate, and
\* a request for a SAN, have been answered.
C1_Witness ==
  /\ Selected(<<"a", ".", "b", ".", "c">>, BEST_AVAILABLE)
  /\ last.result = "FOUND"
  /\ \E id \in LiveCtxs : ctxObjs[id].x509 = "cX"
  /\ \E id \in LiveCtxs : ctxObjs[id].x509 = "cW"

\* C2: with exactly A (a.c) and B (*.c) live, both BestAvailable, a
\* BestAvailable request for a.c selects A and one for b.c selects B.
C2_ExactBeatsWildcard ==
  HoldsExactly("cA", "cB") =>
    /\ Selected(<<"a", ".", "c">>, BEST_AVAILABLE) =>
         (last.result = "FOUND" /\ last.ctx = CtxOfCert("cA"))
    /\ Selected(<<"b", ".", "c">>, BEST_AVAILABLE) =>
         (last.result = "FOUND" /\ last.ctx = CtxOfCert("cB"))

\* B was inserted before A and a.c was requested.
C2_Witness ==
  /\ HoldsExactly("cA", "cB")
  /\ ctxObjs[contexts_.ctxs[1]].x509 = "cB"
  /\ Selected(<<"a", ".", "c">>, BEST_AVAILABLE)
  /\ last.ctx = contexts_.ctxs[2]

\* C3: a wildcard entry .c answers a request for x.c that has no exact entry,
\* and never a request for a.b.c: without an entry for a.b.c or .b.c at a
\* consulted tier the result is NOT_FOUND.
C3_WildcardOneLabel ==
  LET t == last.certCryptoReq
      exact(n) == <<n, t>> \in IndexKeys \/ <<n, BEST_AVAILABLE>> \in IndexKeys
      wildTier == IF <<<<".", "c">>, t>> \in IndexKeys THEN t ELSE BEST_AVAILABLE
  IN /\ \A n \in {<<"a", ".", "c">>, <<"b", ".", "c">>} :
          (Selected(n, t) /\ ~exact(n) /\ <<<<".", "c">>, wildTier>> \in IndexKeys) =>
             /\ last.result = "FOUND"
             /\ last.ctx = contexts_.dnMap[<<<<".", "c">>, wildTier>>]
             /\ \E w \in Identities(X509Of(last.ctx)) : w = <<"*", ".", "c">>
     /\ (Selected(<<"a", ".", "b", ".", "c">>, t)
           /\ ~exact(<<"a", ".", "b", ".", "c">>)
           /\ ~exact(<<".", "b", ".", "c">>)) =>
             (last.result = "NOT_FOUND" /\ last.ctx = Null)

\* With the wildcard entry present, b.c was answered by it and a.b.c was not.
C3_Witness ==
  /\ <<<<".", "c">>, BEST_AVAILABLE>> \in IndexKeys
  /\ Selected(<<"a", ".", "b", ".", "c">>, BEST_AVAILABLE)
  /\ last.result = "NOT_FOUND"
  /\ last.hook = NoFn

\* C4: with exactly W (weak, a.c) and M (best available, a.c) live, in either
\* order, (a.c, BestAvailable) maps to M and (a.c, Weak) to W, and requests at
\* the two tiers select M and W.
C4_WeakNeverDisplacesBest ==
  HoldsExactly("cW", "cA") =>
    /\ contexts_.dnMap[<<<<"a", ".", "c">>, BEST_AVAILABLE>>] = CtxOfCert("cA")
    /\ contexts_.dnMap[<<<<"a", ".", "c">>, SHA1_SIGNATURE>>] = CtxOfCert("cW")
    /\ Selected(<<"a", ".", "c">>, BEST_AVAILABLE) => last.ctx = CtxOfCert("cA")
    /\ Selected(<<"a", ".", "c">>, SHA1_SIGNATURE) => last.ctx = CtxOfCert("cW")

\* M was inserted first, W after it, and a BestAvailable request got M.
C4_Witness ==
  /\ HoldsExactly("cW", "cA")
  /\ ctxObjs[contexts_.ctxs[1]].x509 = "cA"
  /\ Selected(<<"a", ".", "c">>, BEST_AVAILABLE)
  /\ last.ctx = contexts_.ctxs[1]

-----------------------------------------------------------------------------
\* The certificate of a configuration entry (its certificates agree on CN and
\* SAN once the entry has been built).
EntryCert(cfg) == Certs[cfg.certificates[1]]
\* The names a built entry contributes to the index, as the claim counts them
\* and as the index accepts them.
AllNames(cfg) == {Normalized(n) : n \in Identities(EntryCert(cfg))}
AcceptedNames(cfg) ==
  IF IsStar(EntryCert(cfg).cn) THEN {}
  ELSE {Normalized(n) : n \in {w \in Identities(EntryCert(cfg)) : Accepted(w)}}

ResetSucceeded == last.op = "reset" /\ last.ok
\* Nothing the live set points to existed before the call.
AllFresh == \A id \in Referenced(contexts_) : id >= last.base

\* C5 (as stated): after a successful reset the names of the index are
\* exactly the normalized CNs and SANs of the new configuration.
C5_AsStated ==
  ResetSucceeded =>
    IndexNames = UNION {AllNames(last.cfgs[i]) : i \in DOMAIN last.cfgs}

\* C5 (amended): after a successful reset the names of the index are exactly
\* the normalized CNs and SANs that the index accepts, of the certificates of
\* the new configuration whose CN is not the star; and every context, index
\* entry and default of the live set was built by this reset.
C5_ResetReplacesIndex ==
  ResetSucceeded =>
    /\ IndexNames = UNION {AcceptedNames(last.cfgs[i]) : i \in DOMAIN last.cfgs}
    /\ AllFresh
    /\ NoOrphans
    /\ Len(contexts_.ctxs) = Len(last.cfgs)
    /\ \A i \in DOMAIN last.cfgs :
         Certs[ctxObjs[contexts_.ctxs[i]].x509].cn = EntryCert(last.cfgs[i]).cn
    /\ contexts_.defaultCtxDomainName \in
         {<<>>} \cup {EntryCert(last.cfgs[i]).cn : i \in DOMAIN last.cfgs}

\* A set with other names was live, and a reset to a wildcard certificate
\* alone has succeeded.
C5_Witness ==
  /\ ResetSucceeded
  /\ last.base > 1
  /\ IndexNames = {<<".", "c">>}

\* The faults of a configuration the claim lists.
LoadFault(cfg) ==
  \E j \in DOMAIN cfg.certificates :
    ~Certs[cfg.certificates[j]].loadable \/ ~Certs[cfg.certificates[j]].keyOk
Mismatch(cfg) ==
  \E j \in DOMAIN cfg.certificates :
    \/ Certs[cfg.certificates[j]].cn # EntryCert(cfg).cn
    \/ Certs[cfg.certificates[j]].hasSan # EntryCert(cfg).hasSan
    \/ Range(Certs[cfg.certificates[j]].san) # Range(EntryCert(cfg).san)
BadWildcard(cfg) ==
  ~IsStar(EntryCert(cfg).cn) /\ \E n \in Identities(EntryCert(cfg)) : ~Accepted(n)
Faulty(cfgs, strict) ==
  \/ \E i \in DOMAIN cfgs : LoadFault(cfgs[i]) \/ Mismatch(cfgs[i])
  \/ Cardinality({i \in DOMAIN cfgs : cfgs[i].isDefault}) > 1
  \/ strict /\ \E i \in DOMAIN cfgs : BadWildcard(cfgs[i])

\* C6: a reset of a configuration with a load error, an identity mismatch,
\* more than one default or (strict) a bad wildcard throws, and a reset that
\* throws leaves contexts, defaultContext, defaultDomain and index (and the
\* contexts themselves) as they were.
C6_FailedResetKeepsLiveSet ==
  [][ last'.op = "reset" =>
        /\ Faulty(last'.cfgs, strict_) => ~last'.ok
        /\ ~last'.ok => (contexts_' = contexts_ /\ ctxObjs' = ctxObjs) ]_vars

\* A reset whose second entry mixes two CNs has thrown after the first entry
\* was built, over a live set that is not empty.
C6_Witness ==
  /\ last.op = "reset" /\ ~last.ok
  /\ Len(last.cfgs) = 2
  /\ ~Faulty(<<last.cfgs[1]>>, strict_)
  /\ Mismatch(last.cfgs[2])
  /\ contexts_.ctxs # <<>>
  /\ contexts_.defaultCtx # Null

\* C7 (as stated): an add that throws leaves the live set as it was.
C7_AsStated ==
  [][ (last'.op = "add" /\ ~last'.ok) => contexts_' = contexts_ ]_vars

\* The set a reset to HookResetCfgs builds when the next context is id: one
\* context, no default, the wildcard entry.
HookResetSet(id) ==
  [ctxs |-> <<id>>, defaultCtx |-> Null, defaultCtxDomainName |-> <<>>,
   dnMap |-> (<< <<".", "c">>, BEST_AVAILABLE >> :> id)]

WithTM(ctxs, objs) == {i \in DOMAIN ctxs : objs[ctxs[i]].tm # NullSeeds}
PrevSeeds(ctxs, objs) ==
  objs[ctxs[CHOOSE i \in WithTM(ctxs, objs) : \A j \in WithTM(ctxs, objs) : i <= j]].tm

\* C9: after a successful reset without ticket seeds over a live set that
\* has a ticket manager, every context of the new live set holds the seeds of
\* the first live context that had one.
C9_SeedsCarriedOver ==
  [][ ( /\ \/ last'.op = "reset" /\ last'.ok /\ last'.seeds = NullSeeds
           \/ last'.op = "select" /\ last'.hook = "hReset"
        /\ WithTM(contexts_.ctxs, ctxObjs) # {} ) =>
        \A id \in Range(contexts_'.ctxs) :
          ctxObjs'[id].tm = PrevSeeds(contexts_.ctxs, ctxObjs) ]_vars

\* A reset without seeds has built two contexts that hold seeds which only an
\* add or a rotation can have supplied.
C9_Witness ==
  /\ ResetSucceeded /\ last.seeds = NullSeeds
  /\ Len(contexts_.ctxs) = 2
  /\ \A id \in LiveCtxs : ctxObjs[id].tm = Seeds2

\* C10: ticket-key rotation sets the seeds of every context of the live
\* sequence that has a ticket manager, gives none to a context without one,
\* and leaves contexts, defaultContext, defaultDomain and index unchanged.
C10_RotationInPlace ==
  [][ last'.op = "reloadTLSTicketKeys" =>
        /\ contexts_' = contexts_
        /\ DOMAIN ctxObjs' = DOMAIN ctxObjs
        /\ \A id \in DOMAIN ctxObjs :
             /\ ctxObjs'[id].x509 = ctxObjs[id].x509
             /\ (id \in Range(contexts_.ctxs) /\ ctxObjs[id].tm # NullSeeds) =>
                  ctxObjs'[id].tm = last'.seeds
             /\ ctxObjs[id].tm = NullSeeds => ctxObjs'[id].tm = NullSeeds ]_vars

\* A rotation over a live set of one context without ticket manager and two
\* with one.
C10_Witness ==
  /\ last.op = "reloadTLSTicketKeys" /\ last.seeds = Seeds2
  /\ Cardinality({id \in LiveCtxs : ctxObjs[id].tm = Seeds2}) = 2
  /\ \E id \in LiveCtxs : ctxObjs[id].tm = NullSeeds

-----------------------------------------------------------------------------
\* The contexts sequence holds one context, of certificate p, and nothing
\* else of the set points elsewhere.
OnlyCert(contexts, objs, p) ==
  /\ Len(contexts.ctxs) = 1
  /\ objs[contexts.ctxs[1]].x509 = p
  /\ Referenced(contexts) = {contexts.ctxs[1]}

\* What the hooks return.
HookReturnsTrue(fn) == fn \in {"hAdd", "hReset"}

\* The entry of an index for name n at tier t: the exact one, else the one of
\* the suffix of n from its first dot on; Null without either.
HasDot(n) == \E i \in 1..Len(n) : n[i] = "."
Suffix(n) == SubSeq(n, CHOOSE i \in 1..Len(n) : n[i] = "." /\ \A j \in 1..(i - 1) : n[j] # ".", Len(n))
ExactAt(contexts, n, t) ==
  IF <<n, t>> \in DOMAIN contexts.dnMap THEN contexts.dnMap[<<n, t>>] ELSE Null
WildAt(contexts, n, t) ==
  IF HasDot(n) /\ <<Suffix(n), t>> \in DOMAIN contexts.dnMap
    THEN contexts.dnMap[<<Suffix(n), t>>]
    ELSE Null
\* No entry answers n at the requested tier t nor at BestAvailable.
NoEntry(contexts, n, t) ==
  \A u \in {t, BEST_AVAILABLE} : ExactAt(contexts, n, u) = Null /\ WildAt(contexts, n, u) = Null

\* C11: with only certificate A (a.c) live, select for b.c returns the context
\* of the certificate the hook adds when the hook adds it and returns true,
\* and NOT_FOUND when the hook returns false.
C11_HookAddsMissingCert ==
  [][ ( /\ last'.op = "select"
        /\ last'.hello.hasSn /\ last'.hello.sn = <<"b", ".", "c">>
        /\ OnlyCert(contexts_, ctxObjs, "cA") ) =>
        /\ noMatchFn_ = "hAdd" =>
             /\ last'.result = "FOUND"
             /\ last'.ctx \in Range(contexts_'.ctxs) \ Range(contexts_.ctxs)
             /\ ctxObjs'[last'.ctx].x509 = HookAddCfg.certificates[1]
        /\ noMatchFn_ = "hFalse" =>
             /\ last'.result = "NOT_FOUND" /\ last'.ctx = Null
             /\ contexts_' = contexts_ ]_vars

\* A was live alone, b.c was requested, and the context the hook added was
\* selected.
C11_Witness ==
  /\ last.op = "select" /\ last.hello.sn = <<"b", ".", "c">>
  /\ last.hook = "hAdd" /\ last.result = "FOUND"
  /\ Len(contexts_.ctxs) = 2
  /\ ctxObjs[contexts_.ctxs[1]].x509 = "cA"
  /\ last.ctx = contexts_.ctxs[2]

\* C12 (as stated): when the first pass finds nothing and a hook is
\* installed, the hook is invoked with the requested name and the outcome is
\* that of the full lookup against the live set as the hook left it.
C12_AsStated ==
  [][ ( /\ last'.op = "select"
        /\ noMatchFn_ # NoFn
        /\ NoEntry(contexts_, last'.sn, last'.certCryptoReq) ) =>
        /\ last'.hook = noMatchFn_
        /\ last'.hello.hasSn => last'.sn = last'.hello.sn
        /\ last'.ctx = lookupPass(contexts_', last'.sn, last'.certCryptoReq) ]_vars

\* C12 (amended): the hook is invoked with the requested name; when it
\* returns true the full lookup is retried once against the live set as the
\* hook left it and decides the outcome; when it returns false there is no
\* retry and the outcome is NOT_FOUND, whatever the hook did to the live set.
C12_RetryWhenHookReturnsTrue ==
  [][ ( /\ last'.op = "select"
        /\ noMatchFn_ # NoFn
        /\ NoEntry(contexts_, last'.sn, last'.certCryptoReq) ) =>
        /\ last'.hook = noMatchFn_
        /\ last'.hello.hasSn => last'.sn = last'.hello.sn
        /\ HookReturnsTrue(noMatchFn_) =>
             /\ last'.passes = 2
             /\ last'.ctx = lookupPass(contexts_', last'.sn, last'.certCryptoReq)
             /\ last'.result = IF last'.ctx # Null THEN "FOUND" ELSE "NOT_FOUND"
        /\ ~HookReturnsTrue(noMatchFn_) =>
             /\ last'.passes = 1
             /\ last'.result = "NOT_FOUND" /\ last'.ctx = Null ]_vars

\* A weak request for a name nothing answered was answered in the retry by
\* the BestAvailable wildcard entry the hook had added.
C12_Witness ==
  /\ last.op = "select" /\ last.hook = "hAdd" /\ last.passes = 2
  /\ last.certCryptoReq = SHA1_SIGNATURE
  /\ last.sn = <<".", "c">>
  /\ last.result = "FOUND"

\* C13: a select makes one or two lookup passes and returns FOUND or
\* NOT_FOUND; the hook runs only after a pass found nothing at the requested
\* tier and at BestAvailable, and at most once: a second pass follows a hook
\* call, and at most one context has been built.
C13_HookAtMostOnce ==
  [][ last'.op = "select" =>
        /\ last'.passes \in {1, 2}
        /\ last'.result \in {"FOUND", "NOT_FOUND"}
        /\ last'.hook # NoFn =>
             /\ last'.hook = noMatchFn_
             /\ NoEntry(contexts_, last'.sn, last'.certCryptoReq)
        /\ last'.passes = 2 => last'.hook # NoFn
        /\ last'.hook = NoFn => (contexts_' = contexts_ /\ nextId' = nextId)
        /\ nextId' <= nextId + 1
        /\ Cardinality(Range(contexts_'.ctxs) \ Range(contexts_.ctxs)) <= 1 ]_vars

\* The hook ran, added a context, and the second pass found nothing either.
C13_Witness ==
  /\ last.op = "select" /\ last.hook = "hAdd" /\ last.passes = 2
  /\ last.result = "NOT_FOUND"
  /\ Len(contexts_.ctxs) = 2

-----------------------------------------------------------------------------
\* The entries of a configuration that are marked default.
DefaultEntries(cfgs) == {i \in DOMAIN cfgs : cfgs[i].isDefault}

\* C14: the live set has one default slot; a reset whose configuration marks
\* more than one entry default throws, and so does an add of an entry marked
\* default to a live set that has a default, which it leaves as it was; after
\* a successful reset the default is the context of the one entry marked
\* default (none without such an entry), after a successful add of an entry
\* marked default it is the context added; getDefaultSSLCtx returns the
\* default of the live set.
C14_SingleDefault ==
  [][ /\ (last'.op = "add" /\ last'.cfgs[1].isDefault /\ contexts_.defaultCtx # Null) =>
           (~last'.ok /\ contexts_' = contexts_)
      /\ (last'.op = "add" /\ last'.ok /\ last'.cfgs[1].isDefault) =>
           /\ contexts_.defaultCtx = Null
           /\ contexts_'.defaultCtx = contexts_'.ctxs[Len(contexts_'.ctxs)]
           /\ contexts_'.defaultCtx \notin Range(contexts_.ctxs)
      /\ (last'.op = "add" /\ ~last'.cfgs[1].isDefault) =>
           contexts_'.defaultCtx = contexts_.defaultCtx
      /\ (last'.op = "reset" /\ Cardinality(DefaultEntries(last'.cfgs)) > 1) => ~last'.ok
      /\ (last'.op = "reset" /\ last'.ok) =>
           /\ DefaultEntries(last'.cfgs) = {} => contexts_'.defaultCtx = Null
           /\ \A i \in DefaultEntries(last'.cfgs) : contexts_'.defaultCtx = contexts_'.ctxs[i]
      /\ last'.op = "getDefaultSSLCtx" =>
           (last'.ctx = contexts_.defaultCtx /\ contexts_' = contexts_) ]_vars

\* An add of a second default entry, whose certificate loads and indexes, has
\* thrown over a live set whose default is one of its contexts.
C14_Witness ==
  /\ last.op = "add" /\ ~last.ok
  /\ last.cfgs[1].isDefault /\ last.cfgs[1].certificates = <<"cA">>
  /\ contexts_.defaultCtx \in LiveCtxs
  /\ Len(contexts_.ctxs) = 2

-----------------------------------------------------------------------------
\* C15 (as stated): a ClientHello whose SNI is the empty string is looked up
\* under defaultDomain and gets what the same ClientHello without SNI gets.
C15_AsStated ==
  [][ (last'.op = "select" /\ last'.hello.hasSn /\ last'.hello.sn = <<>>) =>
        /\ last'.sn = contexts_.defaultCtxDomainName
        /\ last'.result =
             serverNameCallback(strict_, Mgr, [last'.hello EXCEPT !.hasSn = FALSE]).result
        /\ last'.ctx =
             serverNameCallback(strict_, Mgr, [last'.hello EXCEPT !.hasSn = FALSE]).ctx ]_vars

\* A select has answered, and a lookup pass has read the live set as it is.
Answered == last.op = "select" /\ ~HookLeftSetUnread

\* C16 (as stated): when the name has an exact entry at the requested tier or
\* at BestAvailable, select returns the context of an exact entry.
C16_AsStated ==
  (Answered /\ \E u \in {last.certCryptoReq, BEST_AVAILABLE} :
                 ExactAt(contexts_, last.sn, u) # Null) =>
    /\ last.result = "FOUND"
    /\ last.ctx \in {ExactAt(contexts_, last.sn, u) : u \in {last.certCryptoReq, BEST_AVAILABLE}}
                    \ {Null}

\* C16 (amended): exact beats wildcard within a tier: an exact entry at the
\* requested tier is returned; an exact entry at BestAvailable is returned
\* when nothing, exact or wildcard, answers the name at the requested tier.
C16_ExactBeatsWildcardPerTier ==
  Answered =>
    LET n == last.sn
        t == last.certCryptoReq
    IN /\ ExactAt(contexts_, n, t) # Null =>
            (last.result = "FOUND" /\ last.ctx = ExactAt(contexts_, n, t))
       /\ ( /\ ExactAt(contexts_, n, t) = Null /\ WildAt(contexts_, n, t) = Null
            /\ ExactAt(contexts_, n, BEST_AVAILABLE) # Null ) =>
            (last.result = "FOUND" /\ last.ctx = ExactAt(contexts_, n, BEST_AVAILABLE))

\* A weak request for a name with an exact and a wildcard entry at the weak
\* tier, of two contexts, got the exact one.
C16_Witness ==
  /\ Answered /\ last.certCryptoReq = SHA1_SIGNATURE
  /\ ExactAt(contexts_, last.sn, SHA1_SIGNATURE) # Null
  /\ WildAt(contexts_, last.sn, SHA1_SIGNATURE) # Null
  /\ WildAt(contexts_, last.sn, SHA1_SIGNATURE) # ExactAt(contexts_, last.sn, SHA1_SIGNATURE)
  /\ last.ctx = ExactAt(contexts_, last.sn, SHA1_SIGNATURE)

\* C17: a weak request gets the exact entry of the name at the weak tier,
\* else its wildcard entry at the weak tier; BestAvailable (exact, then
\* wildcard) decides only when the weak tier has neither.
C17_RequestedTierFirst ==
  (Answered /\ last.certCryptoReq = SHA1_SIGNATURE) =>
    LET n == last.sn
        e == ExactAt(contexts_, n, SHA1_SIGNATURE)
        w == WildAt(contexts_, n, SHA1_SIGNATURE)
        eb == ExactAt(contexts_, n, BEST_AVAILABLE)
        wb == WildAt(contexts_, n, BEST_AVAILABLE)
    IN /\ last.ctx = IF e # Null THEN e
                     ELSE IF w # Null THEN w
                     ELSE IF eb # Null THEN eb
                     ELSE wb
       /\ last.result = IF last.ctx # Null THEN "FOUND" ELSE "NOT_FOUND"

\* A weak request got the wildcard entry of the weak tier although another
\* context holds the exact entry of the name at BestAvailable.
C17_Witness ==
  /\ Answered /\ last.certCryptoReq = SHA1_SIGNATURE
  /\ ExactAt(contexts_, last.sn, SHA1_SIGNATURE) = Null
  /\ WildAt(contexts_, last.sn, SHA1_SIGNATURE) # Null
  /\ ExactAt(contexts_, last.sn, BEST_AVAILABLE) # Null
  /\ ExactAt(contexts_, last.sn, BEST_AVAILABLE) # WildAt(contexts_, last.sn, SHA1_SIGNATURE)
  /\ last.ctx = WildAt(contexts_, last.sn, SHA1_SIGNATURE)

\* C18: the requested tier is Weak exactly when ClientHello information is
\* available, its signature algorithms have no SHA-256 entry and it carries
\* no SNI extension; otherwise it is BestAvailable.
C18_TierInference ==
  last.op = "select" =>
    /\ last.certCryptoReq \in {SHA1_SIGNATURE, BEST_AVAILABLE}
    /\ last.certCryptoReq = SHA1_SIGNATURE <=>
         (last.hello.hasInfo /\ ~last.hello.sha256 /\ ~last.hello.sniExt)

\* A ClientHello without SHA-256 but with the SNI extension was answered at
\* BestAvailable by a context that a weak request would not have got.
C18_Witness ==
  /\ Answered
  /\ last.hello.hasInfo /\ ~last.hello.sha256 /\ last.hello.sniExt
  /\ last.certCryptoReq = BEST_AVAILABLE
  /\ ExactAt(contexts_, last.sn, SHA1_SIGNATURE) # Null
  /\ last.ctx = ExactAt(contexts_, last.sn, BEST_AVAILABLE)
  /\ last.ctx # ExactAt(contexts_, last.sn, SHA1_SIGNATURE)

\* C19 (as stated): for a ClientHello without SNI, over a live set that has
\* a default context with a CN other than the star, select looks up
\* defaultDomain and selects the default context.
C19_AsStated ==
  [][ ( /\ last'.op = "select" /\ ~last'.hello.hasSn
        /\ contexts_.defaultCtx # Null
        /\ ~IsStar(Certs[ctxObjs[contexts_.defaultCtx].x509].cn) ) =>
        /\ last'.sn = contexts_.defaultCtxDomainName
        /\ last'.result = "FOUND"
        /\ last'.ctx = contexts_.defaultCtx ]_vars

\* C20 (as stated): in a live set that has a default context, defaultDomain
\* is the CN of the default context's certificate.
C20_AsStated ==
  contexts_.defaultCtx # Null =>
    contexts_.defaultCtxDomainName = X509Of(contexts_.defaultCtx).cn

-----------------------------------------------------------------------------
\* C21 (as stated): after every successful reset with a non-empty
\* configuration the live set's default context is non-null.
C21_AsStated ==
  (ResetSucceeded /\ last.cfgs # <<>>) => contexts_.defaultCtx # Null

\* The entries of the configuration the call that has just run was given.
StarEntries(cfgs) == {i \in DOMAIN cfgs : IsStar(EntryCert(cfgs[i]).cn)}
HasStar(n) == \E i \in 1..Len(n) : n[i] = "*"

\* C22: an entry whose CN is exactly * makes reset and add fail unless it is
\* marked default; an add that accepts it appends its context to contexts and
\* leaves the index as it was; no index key holds the character *, and select
\* with the SNI * never finds a context.
C22_StarOnlyAsDefault ==
  [][ /\ (last'.op \in {"reset", "add"} /\ last'.ok) =>
           \A i \in StarEntries(last'.cfgs) : last'.cfgs[i].isDefault
      /\ (last'.op = "add" /\ last'.ok /\ StarEntries(last'.cfgs) # {}) =>
           /\ contexts_'.dnMap = contexts_.dnMap
           /\ Len(contexts_'.ctxs) = Len(contexts_.ctxs) + 1
           /\ SubSeq(contexts_'.ctxs, 1, Len(contexts_.ctxs)) = contexts_.ctxs
           /\ IsStar(Certs[ctxObjs'[contexts_'.ctxs[Len(contexts_'.ctxs)]].x509].cn)
      /\ \A k \in DOMAIN contexts_'.dnMap : ~HasStar(k[1])
      /\ (last'.op = "select" /\ last'.hello.hasSn /\ last'.hello.sn = <<"*">>) =>
           last'.result = "NOT_FOUND" /\ last'.ctx = Null
    ]_vars

\* An add has accepted a default entry with CN * into a live set that has
\* index entries.
C22_Witness ==
  /\ last.op = "add" /\ last.ok
  /\ IsStar(EntryCert(last.cfgs[1]).cn) /\ last.cfgs[1].isDefault
  /\ Len(contexts_.ctxs) = 2
  /\ IndexKeys # {}
  /\ contexts_.defaultCtx = contexts_.ctxs[2]

\* The index names through which a lookup of n is answered: n itself and its
\* suffix from the first dot.
LookupNames(n) == {n} \cup (IF HasDot(n) THEN {Suffix(n)} ELSE {})

\* C23: every name of the live index with an entry at the Weak tier has one at
\* BestAvailable; and when a Weak request finds nothing at the Weak tier and
\* select still returns a context, that context is the BestAvailable entry of a
\* name without Weak entry, put there by a certificate that is not weak.
C23_WeakHasBestEntry ==
  /\ \A k \in IndexKeys :
       k[2] = SHA1_SIGNATURE => <<k[1], BEST_AVAILABLE>> \in IndexKeys
  /\ ( /\ Answered /\ last.certCryptoReq = SHA1_SIGNATURE /\ last.result = "FOUND"
       /\ ExactAt(contexts_, last.sn, SHA1_SIGNATURE) = Null
       /\ WildAt(contexts_, last.sn, SHA1_SIGNATURE) = Null ) =>
       /\ \E n \in LookupNames(last.sn) :
            /\ <<n, BEST_AVAILABLE>> \in IndexKeys
            /\ contexts_.dnMap[<<n, BEST_AVAILABLE>>] = last.ctx
            /\ <<n, SHA1_SIGNATURE>> \notin IndexKeys
       /\ ~X509Of(last.ctx).sha1

\* The live index has the Weak entry of a.c; a Weak request for b.c finds
\* nothing at the Weak tier and is answered by the BestAvailable entry of .c.
C23_Witness ==
  /\ Selected(<<"b", ".", "c">>, SHA1_SIGNATURE) /\ last.passes = 1
  /\ <<<<"a", ".", "c">>, SHA1_SIGNATURE>> \in IndexKeys
  /\ ExactAt(contexts_, last.sn, SHA1_SIGNATURE) = Null
  /\ WildAt(contexts_, last.sn, SHA1_SIGNATURE) = Null
  /\ last.result = "FOUND"
  /\ last.ctx = contexts_.dnMap[<<<<".", "c">>, BEST_AVAILABLE>>]

-----------------------------------------------------------------------------
\* The number of entries of cfgs a reset hands to addSSLContextConfig: all of
\* them, or those up to the first one that throws.
EntriesProcessed(cfgs) ==
  LET b0 == [c |-> EmptyContexts, objs |-> ctxObjs, fn |-> noMatchFn_,
             next |-> nextId, ok |-> TRUE]
      thrown == {i \in DOMAIN cfgs : ~addAll(strict_, b0, SubSeq(cfgs, 1, i), NullSeeds).ok}
  IN IF thrown = {} THEN Len(cfgs)
     ELSE CHOOSE i \in thrown : \A j \in thrown : i <= j

\* The hook after a call that has processed the first k entries of cfgs when
\* each of them overwrites it.
HookOfLast(cfgs, k) == IF k = 0 THEN noMatchFn_ ELSE cfgs[k].sniNoMatchFn

\* The hook after such a call when the entries whose certificates have loaded
\* overwrite it.
HookOfLastLoaded(cfgs, k) ==
  LET loaded == {i \in 1..k : certificatesLoad(cfgs[i].certificates)}
  IN IF loaded = {} THEN noMatchFn_
     ELSE cfgs[CHOOSE i \in loaded : \A j \in loaded : j <= i].sniNoMatchFn

-----------------------------------------------------------------------------
\* n is one non-empty label followed by the leading-dot suffix s.
OneLabelBefore(n, s) == HasDot(n) /\ n[1] # "." /\ Suffix(n) = s

\* C25 (as stated): select returns the context of a certificate whose only
\* identity is *.c only for a name that is one non-empty label followed by .c.
C25_AsStated ==
  ( /\ Answered /\ last.result = "FOUND"
    /\ Identities(X509Of(last.ctx)) = {<<"*", ".", "c">>} ) =>
    OneLabelBefore(last.sn, <<".", "c">>)

====
